---- MODULE Spec2Model ----
(***************************************************************************)
(* TenderChain: signup (app/api/auth/signup/route.ts), project creation    *)
(* (app/api/projects/route.ts) and the notification service                *)
(* (lib/notifications: createNotification, createBulkNotifications,        *)
(* getInterestedBidders, updateNotificationPreferences).                   *)
(*                                                                         *)
(* The document store and the email gateway are external.  The store is    *)
(* reliable and keeps every inserted document; a lookup by id finds the    *)
(* document whose id, rendered as a string, is the id asked for.  The      *)
(* email gateway delivers or fails, each send on its own.  A handler runs  *)
(* as a sequence of steps separated by its awaits on the store and on the  *)
(* gateway; steps of different requests interleave.                        *)
(***************************************************************************)
EXTENDS Bags, FiniteSets, Integers, Naturals, Sequences, TLC

VARIABLES users, projects, notifications, mail, sreq, preq, ret

vars == <<users, projects, notifications, mail, sreq, preq, ret>>

stores == <<users, projects, notifications, mail>>

(***************************************************************************)
(* Bounds of the model.                                                    *)
(***************************************************************************)
MaxSignups == 2

MaxProjects == 1

DirSize == 2

MaxIds == 2

MaxNotifs == 3

(***************************************************************************)
(* JavaScript values.  A text field of a request body is a string, the     *)
(* string "undefined" standing for a field that is absent.  Values whose   *)
(* type matters (category, specifications, budget) carry their kind.       *)
(***************************************************************************)
Undefined == "undefined"

Truthy(x) == x \notin {Undefined, ""}

JsUndefined == [kind |-> "undefined"]

JsString(s) == [kind |-> "string", s |-> s]

JsNumber(n) == [kind |-> "number", n |-> n]

JsTruthy(v) ==
    CASE v.kind = "undefined" -> FALSE
      [] v.kind = "string" -> Len(v.s) > 0
      [] v.kind = "number" -> v.n # 0

UpperCase == <<"A","B","C","D","E","F","G","H","I","J","K","L","M",
               "N","O","P","Q","R","S","T","U","V","W","X","Y","Z">>

LowerCase == <<"a","b","c","d","e","f","g","h","i","j","k","l","m",
               "n","o","p","q","r","s","t","u","v","w","x","y","z">>

Range26 == {UpperCase[k] : k \in 1..26}

UpperIndex == [c \in Range26 |-> CHOOSE k \in 1..26 : UpperCase[k] = c]

ToLowerChar(c) == IF c \in Range26 THEN LowerCase[UpperIndex[c]] ELSE c

\* String.prototype.toLowerCase on a sequence of characters
toLowerCase(s) == [k \in 1..Len(s) |-> ToLowerChar(s[k])]

\* String.prototype.includes: t occurs in s as a contiguous run
includes(s, t) ==
    \E k \in 0..(Len(s) - Len(t)) : SubSeq(s, k + 1, k + Len(t)) = t

(***************************************************************************)
(* Collections.                                                            *)
(***************************************************************************)
Range(s) == {s[k] : k \in 1..Len(s)}

RECURSIVE BagOfSeq(_)
BagOfSeq(s) ==
    IF s = <<>> THEN EmptyBag
    ELSE SetToBag({Head(s)}) (+) BagOfSeq(Tail(s))

\* the documents of a find(), in the order of their ids
RECURSIVE toArray(_)
toArray(S) ==
    IF S = {} THEN <<>>
    ELSE LET first == CHOOSE u \in S : \A v \in S : u._id <= v._id
         IN <<first>> \o toArray(S \ {first})

(***************************************************************************)
(* User directory.                                                         *)
(***************************************************************************)
validBidderTypes == <<"CONTRACTOR", "DEVELOPER", "SUPPLIER", "CONSULTANT", "BUYER">>

DefaultPreferences == [email |-> TRUE, inApp |-> TRUE, push |-> FALSE]

\* 'notificationPreferences.email' !== false
EmailEnabled(u) ==
    ~ ( "email" \in DOMAIN u.notificationPreferences
        /\ u.notificationPreferences.email = FALSE )

\* findOne({ _id: userId }) on the users collection
FindUserById(us, userId) == {u \in us : ToString(u._id) = userId}

(***************************************************************************)
(* lib/notifications                                                       *)
(***************************************************************************)
NotificationRecord(userId, type, title, message, metadata) ==
    [userId |-> userId, type |-> type, title |-> title, message |-> message,
     read |-> FALSE, metadata |-> metadata]

\* the send made before the insert: a failing send leaves no record
createNotification_SendFirst(us, ns, userId, type, title, message, metadata, sendOk) ==
    LET notification == NotificationRecord(userId, type, title, message, metadata)
        found == FindUserById(us, userId)
        sends == \E u \in found : Truthy(u.email) /\ EmailEnabled(u)
        user == CHOOSE u \in found : TRUE
    IN [notifications |-> IF sends /\ ~sendOk THEN ns
                          ELSE ns (+) SetToBag({notification}),
        attempts |-> IF sends
                     THEN <<[to |-> user.email, subject |-> title, ok |-> sendOk]>>
                     ELSE <<>>,
        threw |-> sends /\ ~sendOk,
        result |-> notification]

\* createNotification: sendOk is the outcome of the email send, if one is made
createNotification(us, ns, userId, type, title, message, metadata, sendOk) ==
    LET notification == NotificationRecord(userId, type, title, message, metadata)
        found == FindUserById(us, userId)
        sends == \E u \in found : Truthy(u.email) /\ EmailEnabled(u)
        user == CHOOSE u \in found : TRUE
    IN [notifications |-> ns (+) SetToBag({notification}),
        attempts |-> IF sends
                     THEN <<[to |-> user.email, subject |-> title, ok |-> sendOk]>>
                     ELSE <<>>,
        threw |-> sends /\ ~sendOk,
        result |-> notification]

\* the query without the isVerified filter
BidderQuery_Unverified(us, types) ==
    {u \in us : u.userType = "bidder" /\ u.bidderType \in Range(types)}

\* find({ userType: 'bidder', bidderType: { $in: types }, isVerified: true })
BidderQuery(us, types) ==
    {u \in us : /\ u.userType = "bidder"
                /\ u.bidderType \in Range(types)
                /\ u.isVerified = TRUE}

\* the users createBulkNotifications queries for email delivery
BulkRecipients(us, userIds) ==
    toArray({u \in us : ToString(u._id) \in Range(userIds) /\ EmailEnabled(u)})

\* one record per user found instead of one per entry of userIds
createBulkNotifications_PerUser(us, ns, userIds, type, title, message, metadata, outcomes) ==
    LET found == BulkRecipients(us, userIds)
        newRecords == [k \in 1..Len(found) |->
                          NotificationRecord(ToString(found[k]._id), type, title,
                                             message, metadata)]
    IN [notifications |-> ns (+) BagOfSeq(newRecords),
        attempts |-> [k \in 1..Len(found) |->
                        [to |-> found[k].email, subject |-> title, ok |-> outcomes[k]]],
        threw |-> FALSE,
        result |-> newRecords]

\* the sends without their try: the first failing send ends the loop and the call
createBulkNotifications_Abort(us, ns, userIds, type, title, message, metadata, outcomes) ==
    LET newRecords == [k \in 1..Len(userIds) |->
                          NotificationRecord(userIds[k], type, title, message, metadata)]
        found == BulkRecipients(us, userIds)
        failed == {k \in 1..Len(found) : ~outcomes[k]}
        last == IF failed = {} THEN Len(found)
                ELSE CHOOSE k \in failed : \A m \in failed : k <= m
    IN [notifications |-> ns (+) BagOfSeq(newRecords),
        attempts |-> [k \in 1..last |->
                        [to |-> found[k].email, subject |-> title, ok |-> outcomes[k]]],
        threw |-> failed # {},
        result |-> newRecords]

\* createBulkNotifications: outcomes[k] is the outcome of the send to the
\* k-th queried user
createBulkNotifications(us, ns, userIds, type, title, message, metadata, outcomes) ==
    LET newRecords == [k \in 1..Len(userIds) |->
                          NotificationRecord(userIds[k], type, title, message, metadata)]
        found == BulkRecipients(us, userIds)
        idx == SelectSeq([k \in 1..Len(found) |-> k], LAMBDA k : Truthy(found[k].email))
    IN [notifications |-> ns (+) BagOfSeq(newRecords),
        attempts |-> [k \in 1..Len(idx) |->
                        [to |-> found[idx[k]].email, subject |-> title,
                         ok |-> outcomes[idx[k]]]],
        threw |-> FALSE,
        result |-> newRecords]

categoryToBidderType ==
    << [keyword |-> <<"C","o","n","s","t","r","u","c","t","i","o","n">>,
        bidderTypes |-> <<"CONTRACTOR">>],
       [keyword |-> <<"I","n","f","r","a","s","t","r","u","c","t","u","r","e">>,
        bidderTypes |-> <<"CONTRACTOR">>],
       [keyword |-> <<"R","e","n","o","v","a","t","i","o","n">>,
        bidderTypes |-> <<"CONTRACTOR">>],
       [keyword |-> <<"S","o","f","t","w","a","r","e"," ","D","e","v","e","l","o","p","m","e","n","t">>,
        bidderTypes |-> <<"DEVELOPER">>],
       [keyword |-> <<"I","T"," ","S","e","r","v","i","c","e","s">>,
        bidderTypes |-> <<"DEVELOPER">>],
       [keyword |-> <<"D","i","g","i","t","a","l"," ","S","o","l","u","t","i","o","n","s">>,
        bidderTypes |-> <<"DEVELOPER">>],
       [keyword |-> <<"T","e","c","h","n","o","l","o","g","y">>,
        bidderTypes |-> <<"DEVELOPER">>],
       [keyword |-> <<"E","q","u","i","p","m","e","n","t">>,
        bidderTypes |-> <<"SUPPLIER">>],
       [keyword |-> <<"M","a","t","e","r","i","a","l","s">>,
        bidderTypes |-> <<"SUPPLIER">>],
       [keyword |-> <<"G","o","o","d","s">>,
        bidderTypes |-> <<"SUPPLIER">>],
       [keyword |-> <<"S","u","p","p","l","y"," ","C","h","a","i","n">>,
        bidderTypes |-> <<"SUPPLIER">>],
       [keyword |-> <<"P","r","o","f","e","s","s","i","o","n","a","l"," ","S","e","r","v","i","c","e","s">>,
        bidderTypes |-> <<"CONSULTANT">>],
       [keyword |-> <<"A","d","v","i","s","o","r","y">>,
        bidderTypes |-> <<"CONSULTANT">>],
       [keyword |-> <<"D","e","s","i","g","n">>,
        bidderTypes |-> <<"CONSULTANT">>],
       [keyword |-> <<"C","o","n","s","u","l","t","i","n","g">>,
        bidderTypes |-> <<"CONSULTANT">>] >>

\* the loop over Object.entries(categoryToBidderType), from entry k on
RECURSIVE RelevantFrom(_, _, _, _)
RelevantFrom(k, tenderCategory, tenderSector, acc) ==
    IF k > Len(categoryToBidderType) THEN [threw |-> FALSE, types |-> acc]
    ELSE IF tenderCategory.kind # "string" THEN [threw |-> TRUE, types |-> acc]
    ELSE LET kw == toLowerCase(categoryToBidderType[k].keyword)
             add == acc \o categoryToBidderType[k].bidderTypes
         IN IF includes(toLowerCase(tenderCategory.s), kw)
            THEN RelevantFrom(k + 1, tenderCategory, tenderSector, add)
            ELSE IF ~JsTruthy(tenderSector)
            THEN RelevantFrom(k + 1, tenderCategory, tenderSector, acc)
            ELSE IF tenderSector.kind # "string"
            THEN [threw |-> TRUE, types |-> acc]
            ELSE IF includes(toLowerCase(tenderSector.s), kw)
            THEN RelevantFrom(k + 1, tenderCategory, tenderSector, add)
            ELSE RelevantFrom(k + 1, tenderCategory, tenderSector, acc)

FallbackBidderTypes == <<"CONTRACTOR", "DEVELOPER", "SUPPLIER", "CONSULTANT">>

getInterestedBidders(us, tenderCategory, tenderSector) ==
    LET loop == RelevantFrom(1, tenderCategory, tenderSector, <<>>)
        relevantBidderTypes == IF loop.types = <<>> THEN FallbackBidderTypes
                               ELSE loop.types
        bidders == toArray(BidderQuery(us, relevantBidderTypes))
    IN IF loop.threw THEN [threw |-> TRUE, result |-> <<>>]
       ELSE [threw |-> FALSE,
             result |-> [k \in 1..Len(bidders) |-> ToString(bidders[k]._id)]]

(***************************************************************************)
(* POST /api/auth/signup                                                   *)
(***************************************************************************)
SignupIds == 1..MaxSignups

NoResponse == [status |-> 0]

ErrorResponse(status, error) == [status |-> status, error |-> error]

IdleSignup ==
    [pc |-> "idle", email |-> Undefined, companyName |-> Undefined,
     userType |-> Undefined, bidderType |-> Undefined,
     verification |-> "none", response |-> NoResponse]

PasswordTruthy(p) == p.kind = "string" /\ p.len > 0

\* the validation without the check of the password's length
SignupValidation_NoLength(body) ==
    IF ~Truthy(body.email) \/ ~PasswordTruthy(body.password)
       \/ ~Truthy(body.companyName) \/ ~Truthy(body.userType)
    THEN "All fields are required"
    ELSE IF body.userType \notin {"tender", "bidder"}
    THEN "Invalid user type"
    ELSE IF body.userType = "bidder" /\ ~Truthy(body.bidderType)
    THEN "Bidder type is required for bidder accounts"
    ELSE IF body.userType = "bidder" /\ body.bidderType \notin Range(validBidderTypes)
    THEN "Invalid bidder type"
    ELSE ""

\* lines 12-33: the error of the first failing check, "" when all pass
SignupValidation(body) ==
    IF ~Truthy(body.email) \/ ~PasswordTruthy(body.password)
       \/ ~Truthy(body.companyName) \/ ~Truthy(body.userType)
    THEN "All fields are required"
    ELSE IF body.userType \notin {"tender", "bidder"}
    THEN "Invalid user type"
    ELSE IF body.userType = "bidder" /\ ~Truthy(body.bidderType)
    THEN "Bidder type is required for bidder accounts"
    ELSE IF body.userType = "bidder" /\ body.bidderType \notin Range(validBidderTypes)
    THEN "Invalid bidder type"
    ELSE IF body.password.len < 8
    THEN "Password must be at least 8 characters"
    ELSE ""

\* the document with bidderType as the body supplied it
NewUser_AsSupplied(id, r) ==
    [_id |-> id, email |-> r.email, companyName |-> r.companyName,
     userType |-> r.userType, bidderType |-> r.bidderType,
     isVerified |-> FALSE,
     notificationPreferences |-> DefaultPreferences]

\* lines 56-72
NewUser(id, r) ==
    [_id |-> id, email |-> r.email, companyName |-> r.companyName,
     userType |-> r.userType,
     bidderType |-> IF r.userType = "bidder" THEN r.bidderType ELSE Undefined,
     isVerified |-> FALSE,
     notificationPreferences |-> DefaultPreferences]

SignupReturn(r, response) ==
    [IdleSignup EXCEPT !.pc = "done", !.verification = r.verification,
                       !.response = response]

SignupEmailSentResponse ==
    [status |-> 200,
     message |-> "User created successfully. Please check your email for verification.",
     emailSent |-> TRUE]

\* the catch of line 101 left out: the error reaches the catch of line 111
SignupEmailFailedResponse_Uncaught == ErrorResponse(500, "Internal server error")

SignupEmailFailedResponse ==
    [status |-> 200,
     message |-> "User created successfully, but there was an issue sending the verification email.",
     emailSent |-> FALSE, warning |-> "Email delivery failed"]

\* lines 9-42: validation and the existing-user lookup
SignupCheck(i, body) ==
    /\ sreq[i].pc = "idle"
    /\ LET error == SignupValidation(body)
       IN sreq' = [sreq EXCEPT ![i] =
            IF error # ""
            THEN SignupReturn(@, ErrorResponse(400, error))
            ELSE IF \E u \in users : u.email = body.email
            THEN SignupReturn(@, ErrorResponse(400, "User already exists"))
            ELSE [@ EXCEPT !.pc = "lookedUp", !.email = body.email,
                           !.companyName = body.companyName,
                           !.userType = body.userType,
                           !.bidderType = body.bidderType]]
    /\ UNCHANGED <<users, projects, notifications, mail, preq, ret>>

\* lines 44-79: the insert; the store gives the document the id i
SignupInsert(i) ==
    /\ sreq[i].pc = "lookedUp"
    /\ users' = users \cup {NewUser(i, sreq[i])}
    /\ sreq' = [sreq EXCEPT ![i].pc = "inserted"]
    /\ UNCHANGED <<projects, notifications, mail, preq, ret>>

\* lines 81-110: the verification email, the welcome notification and the
\* response; a throw of either call is caught at line 101
SignupDeliver(i, sent, ok) ==
    /\ sreq[i].pc = "inserted"
    /\ LET verify == [to |-> sreq[i].email, subject |-> "Verify your email",
                      ok |-> sent]
           c == createNotification(users, notifications, ToString(i),
                    "SIGNUP_COMPLETE", "Welcome to TenderChain!",
                    <<"Welcome", sreq[i].companyName>>,
                    [profileId |-> ToString(i)], ok)
       IN IF ~sent
          THEN /\ mail' = mail (+) SetToBag({verify})
               /\ UNCHANGED notifications
               /\ sreq' = [sreq EXCEPT ![i] =
                     SignupReturn([@ EXCEPT !.verification = "failed"],
                                  SignupEmailFailedResponse)]
          ELSE /\ mail' = mail (+) SetToBag({verify}) (+) BagOfSeq(c.attempts)
               /\ notifications' = c.notifications
               /\ sreq' = [sreq EXCEPT ![i] =
                     SignupReturn([@ EXCEPT !.verification = "sent"],
                                  IF c.threw THEN SignupEmailFailedResponse
                                  ELSE SignupEmailSentResponse)]
    /\ UNCHANGED <<users, projects, preq, ret>>

(***************************************************************************)
(* POST /api/projects                                                      *)
(***************************************************************************)
ProjectIds == 1..MaxProjects

IdleProject ==
    [pc |-> "idle", userId |-> Undefined, title |-> Undefined,
     category |-> JsUndefined, specifications |-> JsUndefined,
     caught |-> FALSE, response |-> NoResponse]

NoHeader == [kind |-> "undefined"]

Header(scheme, token) == [kind |-> "string", scheme |-> scheme, token |-> token]

InvalidToken == [valid |-> FALSE]

TokenOf(u) ==
    [valid |-> TRUE,
     payload |-> [userId |-> ToString(u._id), userType |-> u.userType,
                  companyName |-> u.companyName]]

Null == [kind |-> "null"]

\* lib/auth verifyToken: the payload of a token issued to a user, null otherwise
verifyToken(token) == IF token.valid THEN token.payload ELSE Null

\* lines 67-96: the status and error of the first failing check, 0 when all pass
ProjectValidation(authHeader, body) ==
    IF authHeader.kind = "undefined" \/ authHeader.scheme # "Bearer"
    THEN ErrorResponse(401, "Unauthorized")
    ELSE IF verifyToken(authHeader.token) = Null
            \/ verifyToken(authHeader.token).userType # "tender"
    THEN ErrorResponse(401, "Unauthorized")
    ELSE IF ~Truthy(body.title) \/ ~Truthy(body.description)
            \/ ~JsTruthy(body.budget) \/ ~Truthy(body.deadline)
            \/ ~JsTruthy(body.category)
    THEN ErrorResponse(400, "Missing required fields")
    ELSE NoResponse

\* lines 101-121
NewProject(id, payload, body) ==
    [_id |-> id, title |-> body.title, category |-> body.category,
     specifications |-> body.specifications, status |-> "open",
     bidCount |-> 0, progress |-> 0, tenderId |-> payload.userId,
     createdBy |-> payload.userId]

ProjectReturn(r, response) ==
    [IdleProject EXCEPT !.pc = "done", !.caught = r.caught, !.response = response]

ProjectCreatedResponse(j) ==
    [status |-> 200, message |-> "Project created successfully", projectId |-> j]

InternalError == ErrorResponse(500, "Internal server error")

\* lines 67-123: authorization, validation and the insert of the project
ProjectCreate(j, authHeader, body) ==
    /\ preq[j].pc = "idle"
    /\ LET rejection == ProjectValidation(authHeader, body)
           payload == verifyToken(authHeader.token)
       IN IF rejection # NoResponse
          THEN /\ preq' = [preq EXCEPT ![j] = ProjectReturn(@, rejection)]
               /\ UNCHANGED projects
          ELSE /\ projects' = projects \cup {NewProject(j, payload, body)}
               /\ preq' = [preq EXCEPT ![j] =
                      [@ EXCEPT !.pc = "created", !.userId = payload.userId,
                                !.title = body.title,
                                !.category = body.category,
                                !.specifications = body.specifications]]
    /\ UNCHANGED <<users, notifications, mail, sreq, ret>>

\* lines 125-134; a throw of createNotification reaches the catch of line 159
ProjectNotifyCreator(j, ok) ==
    /\ preq[j].pc = "created"
    /\ LET c == createNotification(users, notifications, preq[j].userId,
                    "PROJECT_CREATED", "Project Created Successfully",
                    <<"created", preq[j].title>>,
                    [projectId |-> ToString(j)], ok)
       IN /\ notifications' = c.notifications
          /\ mail' = mail (+) BagOfSeq(c.attempts)
          /\ preq' = [preq EXCEPT ![j] =
                IF c.threw THEN ProjectReturn(@, InternalError)
                ELSE [@ EXCEPT !.pc = "notified"]]
    /\ UNCHANGED <<users, projects, sreq, ret>>

\* the catch of line 150 left out: the error reaches the catch of line 159
CatchNotificationError_Rethrow(r, j) ==
    ProjectReturn([r EXCEPT !.caught = TRUE],
                  ErrorResponse(500, "Internal server error"))

\* lines 150-158: the error of the bidder notifications is logged and the
\* creation is answered as a success
CatchNotificationError(r, j) ==
    ProjectReturn([r EXCEPT !.caught = TRUE], ProjectCreatedResponse(j))

\* lines 136-158: the matching and the bulk notification of the bidders; a
\* throw of either call is caught at line 150
ProjectNotifyBidders(j, outcomes) ==
    /\ preq[j].pc = "notified"
    /\ LET g == getInterestedBidders(users, preq[j].category, preq[j].specifications)
           b == createBulkNotifications(users, notifications, g.result,
                    "NEW_TENDER_AVAILABLE", "New Tender Available",
                    <<"available", preq[j].title>>,
                    [projectId |-> ToString(j)], outcomes)
       IN IF g.threw
          THEN /\ UNCHANGED <<notifications, mail>>
               /\ preq' = [preq EXCEPT ![j] = CatchNotificationError(@, j)]
          ELSE IF Len(g.result) > 0
          THEN /\ notifications' = b.notifications
               /\ mail' = mail (+) BagOfSeq(b.attempts)
               /\ preq' = [preq EXCEPT ![j] =
                     IF b.threw THEN CatchNotificationError(@, j)
                     ELSE ProjectReturn(@, ProjectCreatedResponse(j))]
          ELSE /\ UNCHANGED <<notifications, mail>>
               /\ preq' = [preq EXCEPT ![j] =
                     ProjectReturn(@, ProjectCreatedResponse(j))]
    /\ UNCHANGED <<users, projects, sreq, ret>>

(***************************************************************************)
(* The directory changes outside the two handlers.                         *)
(***************************************************************************)
\* email verification: isVerified flips once
VerifyUser(id) ==
    /\ \E u \in users : u._id = id /\ ~u.isVerified
    /\ users' = {IF u._id = id THEN [u EXCEPT !.isVerified = TRUE] ELSE u : u \in users}
    /\ UNCHANGED <<projects, notifications, mail, sreq, preq, ret>>

\* updateNotificationPreferences: the preference object is overwritten whole
updateNotificationPreferences(us, userId, preferences) ==
    {IF ToString(u._id) = userId
     THEN [u EXCEPT !.notificationPreferences = preferences] ELSE u : u \in us}

(***************************************************************************)
(* Requests.                                                               *)
(***************************************************************************)
TxtConstruction == <<"C","O","N","S","T","R","U","C","T","I","O","N"," ","w","o","r","k","s">>

TxtItServices == <<"i","t"," ","s","e","r","v","i","c","e","s">>

TxtCatering == <<"C","a","t","e","r","i","n","g">>

TxtDesignGoods == <<"D","e","s","i","g","n"," ","o","f"," ","g","o","o","d","s">>

TxtRoads == <<"R","o","a","d"," ","i","n","f","r","a","s","t","r","u","c","t","u","r","e">>

ValidSignup ==
    [email |-> "a@x.com", password |-> [kind |-> "string", len |-> 8],
     companyName |-> "Acme", userType |-> "bidder", bidderType |-> "CONTRACTOR"]

\* valid bodies, and bodies that fail one check each
SignupBodies ==
    {[ValidSignup EXCEPT !.email = e, !.userType = t[1], !.bidderType = t[2]] :
        e \in {"a@x.com", "b@x.com"},
        t \in {<<"tender", Undefined>>, <<"tender", "SUPPLIER">>,
               <<"bidder", "CONTRACTOR">>, <<"bidder", "BUYER">>}}
    \cup {[ValidSignup EXCEPT !.email = Undefined],
          [ValidSignup EXCEPT !.password = JsUndefined],
          [ValidSignup EXCEPT !.password = [kind |-> "string", len |-> 0]],
          [ValidSignup EXCEPT !.companyName = Undefined],
          [ValidSignup EXCEPT !.userType = Undefined],
          [ValidSignup EXCEPT !.userType = "admin"],
          [ValidSignup EXCEPT !.bidderType = Undefined],
          [ValidSignup EXCEPT !.bidderType = "INVALID"],
          [ValidSignup EXCEPT !.password = [kind |-> "string", len |-> 7]]}

AuthHeaders(us) ==
    {NoHeader} \cup {Header("Basic", InvalidToken), Header("Bearer", InvalidToken)}
    \cup {Header("Bearer", TokenOf(u)) : u \in us}

ValidProject ==
    [title |-> "Bridge", description |-> "A bridge", budget |-> JsNumber(1000),
     deadline |-> "2030-01-01", category |-> JsString(TxtConstruction),
     specifications |-> JsUndefined]

\* valid bodies, and bodies that miss one required field each
ProjectBodies ==
    {[ValidProject EXCEPT !.category = c, !.specifications = s] :
        c \in {JsString(TxtConstruction), JsString(TxtCatering)},
        s \in {JsUndefined, JsNumber(7)}}
    \cup {[ValidProject EXCEPT !.title = Undefined],
          [ValidProject EXCEPT !.description = Undefined],
          [ValidProject EXCEPT !.budget = JsUndefined],
          [ValidProject EXCEPT !.budget = JsNumber(0)],
          [ValidProject EXCEPT !.deadline = Undefined],
          [ValidProject EXCEPT !.category = JsUndefined],
          [ValidProject EXCEPT !.category = JsString(<<>>)]}

PreferenceUpdates ==
    {DefaultPreferences, [email |-> FALSE, inApp |-> TRUE, push |-> FALSE],
     [push |-> TRUE]}

NoCall == [op |-> "none"]

Init ==
    /\ users = {}
    /\ projects = {}
    /\ notifications = EmptyBag
    /\ mail = EmptyBag
    /\ sreq = [i \in SignupIds |-> IdleSignup]
    /\ preq = [j \in ProjectIds |-> IdleProject]
    /\ ret = NoCall

Next ==
    \/ \E i \in SignupIds, body \in SignupBodies : SignupCheck(i, body)
    \/ \E i \in SignupIds : SignupInsert(i)
    \/ \E i \in SignupIds, sent \in BOOLEAN, ok \in BOOLEAN : SignupDeliver(i, sent, ok)
    \/ \E j \in ProjectIds, h \in AuthHeaders(users), body \in ProjectBodies :
          ProjectCreate(j, h, body)
    \/ \E j \in ProjectIds, ok \in BOOLEAN : ProjectNotifyCreator(j, ok)
    \/ \E j \in ProjectIds :
          \E outcomes \in [1..Cardinality(users) -> BOOLEAN] :
             ProjectNotifyBidders(j, outcomes)
    \/ \E u \in users : VerifyUser(u._id)

Spec == Init /\ [][Next]_vars

(***************************************************************************)
(* The notification service called on its own, on a directory that         *)
(* signups, verifications and preference updates have produced.            *)
(***************************************************************************)
Profiles ==
    << [email |-> "a@x.com", userType |-> "bidder", bidderType |-> "CONTRACTOR",
        isVerified |-> TRUE, notificationPreferences |-> DefaultPreferences],
       [email |-> "b@x.com", userType |-> "bidder", bidderType |-> "BUYER",
        isVerified |-> TRUE, notificationPreferences |-> DefaultPreferences],
       [email |-> "a@x.com", userType |-> "bidder", bidderType |-> "DEVELOPER",
        isVerified |-> FALSE, notificationPreferences |-> DefaultPreferences],
       [email |-> "b@x.com", userType |-> "tender", bidderType |-> Undefined,
        isVerified |-> TRUE, notificationPreferences |-> DefaultPreferences],
       [email |-> "a@x.com", userType |-> "bidder", bidderType |-> "SUPPLIER",
        isVerified |-> TRUE, notificationPreferences |-> DefaultPreferences],
       [email |-> "b@x.com", userType |-> "bidder", bidderType |-> "CONSULTANT",
        isVerified |-> TRUE, notificationPreferences |-> DefaultPreferences] >>

UserOf(id, p) ==
    [_id |-> id, email |-> p.email, companyName |-> "Acme",
     userType |-> p.userType, bidderType |-> p.bidderType,
     isVerified |-> p.isVerified,
     notificationPreferences |-> p.notificationPreferences]

Directories ==
    {{UserOf(k, Profiles[f[k]]) : k \in 1..DirSize} :
        f \in [1..DirSize -> 1..Len(Profiles)]}

IdStrings == {ToString(k) : k \in 1..DirSize} \cup {"ghost"}

RECURSIVE SeqsUpTo(_, _)
SeqsUpTo(S, n) ==
    IF n = 0 THEN {<<>>}
    ELSE LET shorter == SeqsUpTo(S, n - 1)
         IN shorter \cup {Append(s, x) : s \in shorter, x \in S}

UserIdLists == SeqsUpTo(IdStrings, MaxIds) \ {<<>>}

CallFixtures ==
    {[type |-> "NEW_TENDER_AVAILABLE", title |-> "New Tender Available",
      message |-> "A new tender is now available", metadata |-> [projectId |-> "7"]],
     [type |-> "TENDER_DOCUMENT_UPLOADED", title |-> "New Document Available",
      message |-> "A new document has been uploaded",
      metadata |-> [tenderId |-> "7", projectId |-> "7"]]}

Categories ==
    {JsString(TxtConstruction), JsString(TxtCatering), JsString(TxtItServices),
     JsString(TxtDesignGoods), JsString(<<>>), JsNumber(42)}

Sectors ==
    {JsUndefined, JsString(TxtRoads), JsString(TxtCatering), JsNumber(7)}

\* directories of the first two profiles: recipients with either address
Recipients ==
    {{UserOf(k, Profiles[f[k]]) : k \in 1..DirSize} : f \in [1..DirSize -> 1..2]}

InitMatch ==
    /\ users \in Directories
    /\ projects = {}
    /\ notifications = EmptyBag
    /\ mail = EmptyBag
    /\ sreq = [i \in SignupIds |-> IdleSignup]
    /\ preq = [j \in ProjectIds |-> IdleProject]
    /\ ret = NoCall

InitNotif ==
    /\ users \in Recipients
    /\ projects = {}
    /\ notifications = EmptyBag
    /\ mail = EmptyBag
    /\ sreq = [i \in SignupIds |-> IdleSignup]
    /\ preq = [j \in ProjectIds |-> IdleProject]
    /\ ret = NoCall

CallGetInterestedBidders(tenderCategory, tenderSector) ==
    /\ LET g == getInterestedBidders(users, tenderCategory, tenderSector)
       IN ret' = [op |-> "getInterestedBidders", tenderCategory |-> tenderCategory,
                  tenderSector |-> tenderSector, threw |-> g.threw,
                  result |-> g.result]
    /\ UNCHANGED <<users, projects, notifications, mail, sreq, preq>>

CallCreateBulkNotifications(userIds, fx, outcomes) ==
    /\ BagCardinality(notifications) + Len(userIds) <= MaxNotifs
    /\ LET b == createBulkNotifications(users, notifications, userIds, fx.type,
                    fx.title, fx.message, fx.metadata, outcomes)
       IN /\ notifications' = b.notifications
          /\ mail' = mail (+) BagOfSeq(b.attempts)
          /\ ret' = [op |-> "createBulkNotifications", userIds |-> userIds,
                     call |-> fx, attempts |-> b.attempts, threw |-> b.threw,
                     result |-> b.result]
    /\ UNCHANGED <<users, projects, sreq, preq>>

CallCreateNotification(userId, fx, ok) ==
    /\ BagCardinality(notifications) + 1 <= MaxNotifs
    /\ LET c == createNotification(users, notifications, userId, fx.type,
                    fx.title, fx.message, fx.metadata, ok)
       IN /\ notifications' = c.notifications
          /\ mail' = mail (+) BagOfSeq(c.attempts)
          /\ ret' = [op |-> "createNotification", userId |-> userId,
                     call |-> fx, attempts |-> c.attempts, threw |-> c.threw,
                     result |-> c.result]
    /\ UNCHANGED <<users, projects, sreq, preq>>

CallUpdateNotificationPreferences(userId, preferences) ==
    /\ users' = updateNotificationPreferences(users, userId, preferences)
    /\ ret' = [op |-> "updateNotificationPreferences", userId |-> userId,
               preferences |-> preferences]
    /\ UNCHANGED <<projects, notifications, mail, sreq, preq>>

NextMatch ==
    \E c \in Categories, s \in Sectors : CallGetInterestedBidders(c, s)

SpecMatch == InitMatch /\ [][NextMatch]_vars

NextNotif ==
    \/ \E ids \in UserIdLists, fx \in CallFixtures :
          \E outcomes \in [1..Len(BulkRecipients(users, ids)) -> BOOLEAN] :
             CallCreateBulkNotifications(ids, fx, outcomes)
    \/ \E id \in IdStrings, fx \in CallFixtures, ok \in BOOLEAN :
          CallCreateNotification(id, fx, ok)
    \/ \E id \in IdStrings, p \in PreferenceUpdates :
          CallUpdateNotificationPreferences(id, p)

SpecNotif == InitNotif /\ [][NextNotif]_vars

(***************************************************************************)
(* Properties.                                                             *)
(***************************************************************************)
NotificationsFor(userId, type) ==
    {n \in BagToSet(notifications) : n.userId = userId /\ n.type = type}

\* C1: every signup that persisted a new user and was answered has a
\* SIGNUP_COMPLETE notification addressed to the new user's id, whether the
\* verification email was sent or failed.
C1_SignupCompleteNotified ==
    \A i \in SignupIds :
        (sreq[i].pc = "done" /\ sreq[i].response.status = 200)
            => NotificationsFor(ToString(i), "SIGNUP_COMPLETE") # {}

\* C2: once POST /api/projects has persisted a project, the response is the
\* success with the projectId, never a 500, even when the creator's
\* notification or its email fails.
C2_PersistedProjectSucceeds ==
    \A j \in ProjectIds :
        (preq[j].pc = "done" /\ \E p \in projects : p._id = j)
            => /\ preq[j].response.status = 200
               /\ preq[j].response.projectId = j

\* C3: an error raised while matching or notifying the bidders is caught: the
\* project and the creator's notification stay persisted and the response is
\* 200 with the projectId.
C3_BidderErrorsCaught ==
    \A j \in ProjectIds :
        preq[j].caught
            => /\ preq[j].pc = "done"
               /\ \E p \in projects :
                     /\ p._id = j
                     /\ \E n \in NotificationsFor(p.tenderId, "PROJECT_CREATED") :
                           n.metadata = [projectId |-> ToString(j)]
               /\ preq[j].response.status = 200
               /\ preq[j].response.projectId = j

C3_Witness ==
    \E j \in ProjectIds :
        /\ preq[j].caught
        /\ preq[j].response.status = 200
        /\ \E p \in projects : p._id = j

\* C4: when the verification email fails, the user inserted by the request is
\* still in the user store and the response is the success with
\* emailSent=false and a warning.
C4_EmailFailureKeepsUser ==
    \A i \in SignupIds :
        sreq[i].verification = "failed"
            => /\ \E u \in users : u._id = i
               /\ sreq[i].pc = "done"
               /\ sreq[i].response.status = 200
               /\ sreq[i].response.emailSent = FALSE
               /\ "warning" \in DOMAIN sreq[i].response

C4_Witness ==
    \E i \in SignupIds :
        /\ sreq[i].verification = "failed"
        /\ sreq[i].pc = "done"
        /\ \E u \in users : u._id = i /\ ~u.isVerified

Missing(x) == x = Undefined \/ x = ""

\* the signup bodies the claim names as rejected for input validation
SignupInvalid(body, us) ==
    \/ Missing(body.email) \/ Missing(body.companyName) \/ Missing(body.userType)
    \/ body.password.kind = "undefined"
    \/ body.password.len < 8
    \/ body.userType \notin {"tender", "bidder"}
    \/ /\ body.userType = "bidder"
       /\ body.bidderType \notin {"CONTRACTOR", "DEVELOPER", "SUPPLIER",
                                  "CONSULTANT", "BUYER"}
    \/ \E u \in us : u.email = body.email

\* the requests the claim names as rejected for authorization
ProjectUnauthorized(h) ==
    \/ h = NoHeader
    \/ h.scheme # "Bearer"
    \/ h.token = InvalidToken
    \/ h.token.payload.userType # "tender"

\* the project bodies the claim names as rejected for input validation
ProjectInvalid(body) ==
    \/ Missing(body.title) \/ Missing(body.description) \/ Missing(body.deadline)
    \/ body.budget.kind = "undefined"
    \/ body.category.kind = "undefined"

\* C5: a signup or a project creation rejected for authorization (401) or for
\* input validation (400) leaves the user, project and notification stores
\* unchanged and sends no email.
C5_RejectionChangesNothing ==
    [][ /\ \A i \in SignupIds, body \in SignupBodies :
              (SignupInvalid(body, users) /\ SignupCheck(i, body))
                  => /\ sreq'[i].pc = "done"
                     /\ sreq'[i].response.status = 400
                     /\ UNCHANGED stores
        /\ \A j \in ProjectIds, h \in AuthHeaders(users), body \in ProjectBodies :
              /\ (ProjectUnauthorized(h) /\ ProjectCreate(j, h, body))
                    => /\ preq'[j].pc = "done"
                       /\ preq'[j].response.status = 401
                       /\ UNCHANGED stores
              /\ (~ProjectUnauthorized(h) /\ ProjectInvalid(body)
                    /\ ProjectCreate(j, h, body))
                    => /\ preq'[j].pc = "done"
                       /\ preq'[j].response.status = 400
                       /\ UNCHANGED stores
      ]_vars

C5_Witness ==
    /\ \E i \in SignupIds :
          sreq[i].pc = "done" /\ sreq[i].response.status = 400
    /\ \E j \in ProjectIds :
          preq[j].pc = "done" /\ preq[j].response.status \in {400, 401}
    /\ users # {}
    /\ notifications # EmptyBag
    /\ projects = {}

SameLetter(a, b) ==
    a = b \/ \E k \in 1..26 : {a, b} = {UpperCase[k], LowerCase[k]}

\* kw is a case-insensitive substring of text
OccursIgnoringCase(kw, text) ==
    \E off \in 0..(Len(text) - Len(kw)) :
        \A k \in 1..Len(kw) : SameLetter(text[off + k], kw[k])

\* the table entries whose keyword occurs in the category or in the sector
MatchingKeywords(tenderCategory, tenderSector) ==
    {k \in 1..Len(categoryToBidderType) :
        \/ OccursIgnoringCase(categoryToBidderType[k].keyword, tenderCategory.s)
        \/ /\ tenderSector.kind = "string"
           /\ OccursIgnoringCase(categoryToBidderType[k].keyword, tenderSector.s)}

MatcherReturned ==
    /\ ret.op = "getInterestedBidders"
    /\ ret.tenderCategory.kind = "string"
    /\ ret.tenderSector.kind \in {"undefined", "string"}

VerifiedBidders == {u \in users : u.isVerified /\ u.userType = "bidder"}

\* C6: when no keyword occurs in the category or in the sector,
\* getInterestedBidders returns the id of every verified bidder, whatever
\* their bidderType (CONTRACTOR, DEVELOPER, SUPPLIER, CONSULTANT, BUYER).
C6_FallbackReturnsEveryVerifiedBidder ==
    (MatcherReturned /\ MatchingKeywords(ret.tenderCategory, ret.tenderSector) = {})
        => /\ ~ret.threw
           /\ Range(ret.result) = {ToString(u._id) : u \in VerifiedBidders}

\* C7: when a keyword occurs in the category or in the sector,
\* getInterestedBidders returns exactly the ids of the verified bidders whose
\* bidderType is mapped from a matching keyword, each id once.
C7_MatchedReturnsMappedVerifiedBidders ==
    (MatcherReturned /\ MatchingKeywords(ret.tenderCategory, ret.tenderSector) # {})
        => LET mapped == UNION {Range(categoryToBidderType[k].bidderTypes) :
                              k \in MatchingKeywords(ret.tenderCategory,
                                                     ret.tenderSector)}
           IN /\ ~ret.threw
              /\ Range(ret.result) =
                    {ToString(u._id) : u \in {v \in VerifiedBidders :
                                                v.bidderType \in mapped}}
              /\ Len(ret.result) = Cardinality(Range(ret.result))

C7_Witness ==
    /\ MatcherReturned
    /\ Cardinality(MatchingKeywords(ret.tenderCategory, ret.tenderSector)) >= 2
    /\ Len(ret.result) >= 1
    /\ \E u \in users : ~u.isVerified /\ ToString(u._id) \notin Range(ret.result)

\* the records the claim expects for userIds, each as often as its id occurs
ExpectedBulk(userIds, fx) ==
    LET rec(id) == [userId |-> id, type |-> fx.type, title |-> fx.title,
                    message |-> fx.message, read |-> FALSE,
                    metadata |-> fx.metadata]
    IN [r \in {rec(id) : id \in Range(userIds)} |->
           Cardinality({k \in 1..Len(userIds) : rec(userIds[k]) = r})]

\* C8: createBulkNotifications adds exactly len(userIds) records, one per
\* entry of userIds, each with read=false and the given type, title, message
\* and metadata; it changes no existing notification, whatever the outcomes
\* of the email sends.
C8_BulkInsertsOnePerId ==
    [][ ret'.op = "createBulkNotifications"
          => /\ notifications' = notifications (+) ExpectedBulk(ret'.userIds, ret'.call)
             /\ BagCardinality(notifications')
                   = BagCardinality(notifications) + Len(ret'.userIds)
      ]_vars

C8_Witness ==
    /\ ret.op = "createBulkNotifications"
    /\ Len(ret.userIds) = 2
    /\ ret.userIds[1] = ret.userIds[2]
    /\ BagCardinality(notifications) = 3
    /\ \E k \in 1..Len(ret.attempts) : ~ret.attempts[k].ok

\* the users of userIds with an email address who have not set
\* notificationPreferences.email to false
EligibleRecipients(userIds) ==
    {u \in users : /\ ToString(u._id) \in Range(userIds)
                   /\ ~Missing(u.email)
                   /\ \/ "email" \notin DOMAIN u.notificationPreferences
                      \/ u.notificationPreferences.email # FALSE}

\* C9: in createBulkNotifications every recipient of userIds with an email
\* address and email notifications not disabled gets exactly one send
\* attempt, whatever the outcome of the earlier attempts, and the call
\* returns normally.
C9_EverySendAttempted ==
    ret.op = "createBulkNotifications"
        => /\ ~ret.threw
           /\ \A addr \in {u.email : u \in users} :
                 Cardinality({k \in 1..Len(ret.attempts) : ret.attempts[k].to = addr})
                    = Cardinality({u \in EligibleRecipients(ret.userIds) :
                                      u.email = addr})
           /\ \A k \in 1..Len(ret.attempts) :
                 ret.attempts[k].to \in {u.email : u \in users}

C9_Witness ==
    /\ ret.op = "createBulkNotifications"
    /\ Len(ret.attempts) = 2
    /\ ~ret.attempts[1].ok
    /\ ret.attempts[2].ok
    /\ ~ret.threw

\* C10: no two user records share the same email, whatever the interleaving
\* of the signup requests.
C10_UniqueEmail ==
    \A u, v \in users : u.email = v.email => u = v

BidderTypeTags == {"CONTRACTOR", "DEVELOPER", "SUPPLIER", "CONSULTANT", "BUYER"}

\* C11: every user record has bidderType set, to one of the five tags, if and
\* only if its userType is bidder; a tender signup that supplies a bidderType
\* is stored without one, and a bidder signup with a missing or non-enum
\* bidderType never gets past validation, so it is never stored.
C11_BidderTypeIffBidder ==
    /\ \A u \in users :
          /\ u.userType \in {"tender", "bidder"}
          /\ u.bidderType \in BidderTypeTags \cup {Undefined}
          /\ u.bidderType \in BidderTypeTags <=> u.userType = "bidder"
    /\ \A i \in SignupIds :
          /\ (sreq[i].pc \in {"lookedUp", "inserted"} /\ sreq[i].userType = "bidder")
                => sreq[i].bidderType \in BidderTypeTags
          /\ sreq[i].pc = "inserted"
                => \E u \in users :
                      /\ u._id = i
                      /\ u.userType = sreq[i].userType
                      /\ u.userType = "tender" => u.bidderType = Undefined
                      /\ u.userType = "bidder" => u.bidderType = sreq[i].bidderType

C11_Witness ==
    \E i \in SignupIds :
        /\ sreq[i].pc = "inserted"
        /\ sreq[i].userType = "tender"
        /\ sreq[i].bidderType = "SUPPLIER"
        /\ \E u \in users : u._id = i /\ u.bidderType = Undefined
        /\ \E u \in users : u.userType = "bidder" /\ u.bidderType \in BidderTypeTags

\* C12: createNotification inserts exactly one notification record, with
\* read=false, and makes at most one email send: it sends if and only if the
\* recipient's user record is found with an email address and has not set
\* notificationPreferences.email to false; the record is in the store also
\* when the send throws, and then the error reaches the caller.
C12_OneInsertThenAtMostOneSend ==
    [][ ret'.op = "createNotification"
          => LET fx == ret'.call
                 rec == [userId |-> ret'.userId, type |-> fx.type,
                         title |-> fx.title, message |-> fx.message,
                         read |-> FALSE, metadata |-> fx.metadata]
                 recipients == {u \in users :
                                  /\ ToString(u._id) = ret'.userId
                                  /\ ~Missing(u.email)
                                  /\ \/ "email" \notin DOMAIN u.notificationPreferences
                                     \/ u.notificationPreferences.email # FALSE}
             IN /\ notifications' = notifications (+) SetToBag({rec})
                /\ BagCardinality(notifications') = BagCardinality(notifications) + 1
                /\ Len(ret'.attempts) <= 1
                /\ Len(ret'.attempts) = 1 <=> recipients # {}
                /\ Len(ret'.attempts) = 1
                      => /\ \E u \in recipients : ret'.attempts[1].to = u.email
                         /\ ret'.attempts[1].subject = fx.title
                /\ mail' = mail (+) BagOfSeq(ret'.attempts)
                /\ ret'.threw <=> (Len(ret'.attempts) = 1 /\ ~ret'.attempts[1].ok)
                /\ UNCHANGED users
      ]_vars

C12_Witness ==
    /\ ret.op = "createNotification"
    /\ ret.threw
    /\ Len(ret.attempts) = 1
    /\ BagCardinality(notifications) >= 2
    /\ BagIn([userId |-> ret.userId, type |-> ret.call.type,
              title |-> ret.call.title, message |-> ret.call.message,
              read |-> FALSE, metadata |-> ret.call.metadata], notifications)
    /\ \E u \in users : ~EmailEnabled(u)

\* C13: the emailSent field of a successful signup response is true if and
\* only if the verification email was sent successfully in that request.
C13_EmailSentIffVerificationSent ==
    \A i \in SignupIds :
        (sreq[i].pc = "done" /\ sreq[i].response.status = 200)
            => (sreq[i].response.emailSent <=> sreq[i].verification = "sent")

====
